---------------------------- MODULE Spec2Model ----------------------------
(***************************************************************************)
(* A model of generate_geoparquet.py: the filename date extractor, the     *)
(* STAC item builder, the GeoParquet validator and the command line entry  *)
(* point.  Text is modelled as sequences of one-character strings, so that *)
(* parsing and formatting are computed the way the code computes them.     *)
(***************************************************************************)
EXTENDS Integers, Sequences, FiniteSets, TLC

VARIABLES
    ex_pc,        \* extract_datetime_from_filename: position in the function
    filename,     \* extract_datetime_from_filename: its argument
    name,         \* extract_datetime_from_filename: the extension-stripped name
    fmt_i,        \* extract_datetime_from_filename: index of the loop over DATE_FORMATS
    ret,          \* extract_datetime_from_filename: the value returned
    ret_site,     \* extract_datetime_from_filename: the return statement that ran
    cs_pc,        \* create_stac_items: position in the function
    file_records, \* create_stac_items: its argument
    rec_i,        \* create_stac_items: index of the loop over file_records
    dt,           \* create_stac_items: the local dt
    cs_args,      \* create_stac_items: base_url, style_url, bbox and asset_type_override
    dt_source,    \* create_stac_items: where dt of the current record came from
    items,        \* create_stac_items: the items appended so far
    v_pc,         \* validate_geoparquet: position in the function
    gdf,          \* validate_geoparquet: the table read from the file
    col_i,        \* validate_geoparquet: index of the loop over required_columns
    row_i,        \* validate_geoparquet: index of the loop over the rows
    valid,        \* validate_geoparquet: the local valid
    out,          \* the lines printed so far
    m_pc,         \* main: position in the function
    args,         \* main: the parsed command line
    io,           \* the file reads and writes and the error raised, in order
    fs,           \* what the files named on the command line hold
    clock         \* the current UTC instant, what datetime.utcnow() returns

ex_vars == <<ex_pc, filename, name, fmt_i, ret, ret_site>>
cs_vars == <<cs_pc, file_records, cs_args, rec_i, dt, dt_source, items>>
v_vars == <<v_pc, gdf, col_i, row_i, valid, out>>
m_vars == <<m_pc, args, io, fs>>
vars == <<ex_vars, cs_vars, v_vars, m_vars, clock>>

\* what the steps of each function leave alone
ExFrame == UNCHANGED <<cs_vars, v_vars, m_vars, clock>>

CsFrame == UNCHANGED <<v_vars, m_vars, clock>>

VFrame == UNCHANGED <<ex_vars, cs_vars, m_vars, clock>>

---------------------------------------------------------------------------
(* Text *)

DigitChars == {"0", "1", "2", "3", "4", "5", "6", "7", "8", "9"}

DigitSeq == <<"0", "1", "2", "3", "4", "5", "6", "7", "8", "9">>

\* int() of one decimal digit
DigitVal(c) == CHOOSE n \in 0..9 : DigitSeq[n + 1] = c

IsDigit(s, p) == p >= 1 /\ p <= Len(s) /\ s[p] \in DigitChars

\* s[p] is a digit in lo..hi
DigitIn(s, p, lo, hi) == IsDigit(s, p) /\ DigitVal(s[p]) >= lo /\ DigitVal(s[p]) <= hi

CharIs(s, p, c) == p >= 1 /\ p <= Len(s) /\ s[p] = c

\* every one of the n characters from p on is a digit
AllDigits(s, p, n) == \A k \in 0..(n - 1) : IsDigit(s, p + k)

RECURSIVE NumVal(_, _, _)
\* int() of the n digits of s from p on
NumVal(s, p, n) ==
    IF n = 0 THEN 0 ELSE NumVal(s, p, n - 1) * 10 + DigitVal(s[p + n - 1])

\* the n characters of s from p on
Slice(s, p, n) == [k \in 1..n |-> s[p + k - 1]]

\* n rendered in exactly w digits, zero padded
RECURSIVE Digits(_, _)
Digits(n, w) ==
    IF w = 0 THEN <<>> ELSE Digits(n \div 10, w - 1) \o <<DigitSeq[(n % 10) + 1]>>

RECURSIVE Flatten(_)
Flatten(ss) == IF ss = <<>> THEN <<>> ELSE Head(ss) \o Flatten(Tail(ss))

---------------------------------------------------------------------------
(* Calendar values: datetime.datetime *)

IsLeap(y) == (y % 4 = 0 /\ y % 100 # 0) \/ y % 400 = 0

DaysInMonth(y, m) ==
    IF m = 2 THEN (IF IsLeap(y) THEN 29 ELSE 28)
    ELSE IF m \in {4, 6, 9, 11} THEN 30 ELSE 31

\* tzinfo: None is [aware |-> FALSE, off |-> 0]; off is the offset in minutes
Naive == [aware |-> FALSE, off |-> 0]

UTC == [aware |-> TRUE, off |-> 0]

DateTime(y, mo, d, h, mi, s, tz) ==
    [year |-> y, month |-> mo, day |-> d, hour |-> h, minute |-> mi,
     second |-> s, tzinfo |-> tz]

\* what a failed strptime raises; every use of it below is inside try/except
ValueError == [exception |-> "ValueError"]

\* pandas' NaT
NaT == [exception |-> "NaT"]

IsDateTime(x) == "year" \in DOMAIN x

---------------------------------------------------------------------------
(* datetime.strptime, as _strptime does it: the format becomes a regular    *)
(* expression, re.match takes the first match in backtracking order, and    *)
(* the match must then end where the string ends.                           *)

Directives == {"%Y", "%m", "%d", "%H", "%M", "%S"}

DATE_FORMATS == <<
    <<"%Y", "%m", "%d", "%H", "%M">>,
    <<"%Y", "%m", "%d">>,
    <<"%Y", "-", "%m", "-", "%d">>,
    <<"%Y", "%m", "%d", "_", "%H", "%M">>,
    <<"%Y", "-", "%m", "-", "%d", "T", "%H", "%M">>,
    <<"%Y", "-", "%m", "-", "%d", "T", "%H", ":", "%M">>,
    <<"%Y", "-", "%m", "-", "%d", "T", "%H", ":", "%M", ":", "%S">> >>

\* a literal of the format matches itself, ignoring case (re.IGNORECASE)
LiteralMatches(lit, c) == c = lit \/ (lit = "T" /\ c = "t")

\* The lengths, in the order the regular expression tries its alternatives,
\* of the alternatives of token tok that match s at p.
Alternatives(tok, s, p) ==
    LET pick(cond, n) == IF cond THEN <<n>> ELSE <<>>
    IN  CASE tok = "%Y" -> pick(AllDigits(s, p, 4), 4)
          [] tok = "%m" -> pick(CharIs(s, p, "1") /\ DigitIn(s, p + 1, 0, 2), 2)
                           \o pick(CharIs(s, p, "0") /\ DigitIn(s, p + 1, 1, 9), 2)
                           \o pick(DigitIn(s, p, 1, 9), 1)
          [] tok = "%d" -> pick(CharIs(s, p, "3") /\ DigitIn(s, p + 1, 0, 1), 2)
                           \o pick(DigitIn(s, p, 1, 2) /\ IsDigit(s, p + 1), 2)
                           \o pick(CharIs(s, p, "0") /\ DigitIn(s, p + 1, 1, 9), 2)
                           \o pick(DigitIn(s, p, 1, 9), 1)
                           \o pick(CharIs(s, p, " ") /\ DigitIn(s, p + 1, 1, 9), 2)
          [] tok = "%H" -> pick(CharIs(s, p, "2") /\ DigitIn(s, p + 1, 0, 3), 2)
                           \o pick(DigitIn(s, p, 0, 1) /\ IsDigit(s, p + 1), 2)
                           \o pick(IsDigit(s, p), 1)
          [] tok = "%M" -> pick(DigitIn(s, p, 0, 5) /\ IsDigit(s, p + 1), 2)
                           \o pick(IsDigit(s, p), 1)
          [] tok = "%S" -> pick(CharIs(s, p, "6") /\ DigitIn(s, p + 1, 0, 1), 2)
                           \o pick(DigitIn(s, p, 0, 5) /\ IsDigit(s, p + 1), 2)
                           \o pick(IsDigit(s, p), 1)
          [] OTHER -> pick(p <= Len(s) /\ LiteralMatches(tok, s[p]), 1)

\* int() of a matched group; the " [1-9]" alternative of %d has a leading blank
GroupVal(s, p, n) == IF s[p] = " " THEN DigitVal(s[p + 1]) ELSE NumVal(s, p, n)

NoMatch == [ok |-> FALSE, end |-> 0, groups |-> <<>>]

RECURSIVE MatchFrom(_, _, _, _)
RECURSIVE FirstAlternative(_, _, _, _, _, _)

\* re.match of the tokens k.. of fmt against s from p: the first match found
\* by backtracking, with the groups it captured
MatchFrom(s, fmt, k, p) ==
    IF k > Len(fmt) THEN [ok |-> TRUE, end |-> p, groups |-> <<>>]
    ELSE FirstAlternative(s, fmt, k, p, Alternatives(fmt[k], s, p), 1)

FirstAlternative(s, fmt, k, p, alts, j) ==
    IF j > Len(alts) THEN NoMatch
    ELSE LET rest == MatchFrom(s, fmt, k + 1, p + alts[j])
         IN  IF rest.ok
             THEN [ok |-> TRUE, end |-> rest.end,
                   groups |-> IF fmt[k] \in Directives
                              THEN <<<<fmt[k], GroupVal(s, p, alts[j])>>>> \o rest.groups
                              ELSE rest.groups]
             ELSE FirstAlternative(s, fmt, k, p, alts, j + 1)

\* the value of directive d among the captured groups, dflt when absent
Group(groups, d, dflt) ==
    IF \E k \in 1..Len(groups) : groups[k][1] = d
    THEN groups[CHOOSE k \in 1..Len(groups) : groups[k][1] = d][2]
    ELSE dflt

\* datetime.datetime(...) raises ValueError outside these ranges
ValidDateTime(y, mo, d, h, mi, s) ==
    /\ y >= 1 /\ y <= 9999
    /\ mo >= 1 /\ mo <= 12
    /\ d >= 1 /\ d <= DaysInMonth(y, mo)
    /\ h >= 0 /\ h <= 23
    /\ mi >= 0 /\ mi <= 59
    /\ s >= 0 /\ s <= 59

\* datetime.strptime(s, fmt): a naive datetime, or ValueError
strptime(s, fmt) ==
    LET m == MatchFrom(s, fmt, 1, 1)
    IN  IF ~m.ok THEN ValueError
        ELSE IF m.end # Len(s) + 1 THEN ValueError
        ELSE LET y  == Group(m.groups, "%Y", 1900)
                 mo == Group(m.groups, "%m", 1)
                 d  == Group(m.groups, "%d", 1)
                 h  == Group(m.groups, "%H", 0)
                 mi == Group(m.groups, "%M", 0)
                 sc == Group(m.groups, "%S", 0)
             IN  IF ValidDateTime(y, mo, d, h, mi, sc)
                 THEN DateTime(y, mo, d, h, mi, sc, Naive)
                 ELSE ValueError

---------------------------------------------------------------------------
(* extract_datetime_from_filename *)

\* The index of the last "." of f that has at least one character after it,
\* 0 when there is none: where re.sub(r"\.[^.]+$", ...) matches.
ExtensionStart(f) ==
    LET dots == {k \in 1..Len(f) : f[k] = "."}
    IN  IF dots = {} THEN 0
        ELSE LET last == CHOOSE k \in dots : \A j \in dots : j <= k
             IN  IF last < Len(f) THEN last ELSE 0

\* re.sub(r"\.[^.]+$", "", filename)
StripExtension(f) ==
    IF ExtensionStart(f) = 0 THEN f ELSE SubSeq(f, 1, ExtensionStart(f) - 1)

\* the start of the leftmost match of the predicate At over the positions of s, 0 for None
Leftmost(s, At(_, _)) ==
    IF \E k \in 1..Len(s) : At(s, k)
    THEN CHOOSE k \in 1..Len(s) : At(s, k) /\ \A j \in 1..(k - 1) : ~At(s, j)
    ELSE 0

DateRunLen == 8

TimeRunLen == 4

DateTimeAt(s, p) ==
    /\ AllDigits(s, p, DateRunLen)
    /\ (CharIs(s, p + DateRunLen, "_") \/ CharIs(s, p + DateRunLen, "-"))
    /\ AllDigits(s, p + DateRunLen + 1, TimeRunLen)

\* re.search(r"(\d{8})[_-](\d{4})", name)
SearchDateTime(s) == Leftmost(s, DateTimeAt)

DateAt(s, p) == AllDigits(s, p, DateRunLen)

\* re.search(r"\d{8}", name)
SearchDate(s) == Leftmost(s, DateAt)

\* a slip: the except clauses name an exception strptime never raises
ExceptClause_KeyError == {"KeyError"}

\* the exceptions the three except clauses of the function catch
ExceptClause == {"ValueError"}

\* the function is entered
ExCall(f) ==
    /\ filename' = f
    /\ name' = <<>>
    /\ fmt_i' = 0
    /\ ret' = NaT
    /\ ret_site' = "none"
    /\ ex_pc' = "strip"

ExReturn(value, site) ==
    /\ ret' = value
    /\ ret_site' = site
    /\ ex_pc' = "returned"

\* an exception no except clause catches leaves the function
ExRaise == ex_pc' = "raised" /\ UNCHANGED <<ret, ret_site>>

\* one try: the body's value is returned, its exception caught or let through
ExTry(value, site, continue_at) ==
    IF IsDateTime(value) THEN ExReturn(value, site)
    ELSE IF value.exception \in ExceptClause
         THEN ex_pc' = continue_at /\ UNCHANGED <<ret, ret_site>>
         ELSE ExRaise

ExStrip ==
    /\ ex_pc = "strip"
    /\ name' = StripExtension(filename)
    /\ fmt_i' = 1
    /\ ex_pc' = "formats"
    /\ UNCHANGED <<filename, ret, ret_site>>
    /\ ExFrame

\* a slip: the loop runs over DATE_FORMATS from its last format to its first
ExTryFormat_Reversed ==
    /\ ex_pc = "formats"
    /\ fmt_i <= Len(DATE_FORMATS)
    /\ ExTry(strptime(name, DATE_FORMATS[Len(DATE_FORMATS) + 1 - fmt_i]),
             "strptime", "formats")
    /\ fmt_i' = IF ex_pc' = "formats" THEN fmt_i + 1 ELSE fmt_i
    /\ UNCHANGED <<filename, name>>
    /\ ExFrame

\* one iteration of the loop over DATE_FORMATS
ExTryFormat ==
    /\ ex_pc = "formats"
    /\ fmt_i <= Len(DATE_FORMATS)
    /\ ExTry(strptime(name, DATE_FORMATS[fmt_i]), "strptime", "formats")
    /\ fmt_i' = IF ex_pc' = "formats" THEN fmt_i + 1 ELSE fmt_i
    /\ UNCHANGED <<filename, name>>
    /\ ExFrame

\* the loop is over: on to the scan for YYYYMMDD_HHMM
ExFormatsDone ==
    /\ ex_pc = "formats"
    /\ fmt_i > Len(DATE_FORMATS)
    /\ ex_pc' = "scan_datetime"
    /\ UNCHANGED <<filename, name, fmt_i, ret, ret_site>>
    /\ ExFrame

ExScanDateTime ==
    /\ ex_pc = "scan_datetime"
    /\ LET p == SearchDateTime(name)
       IN  IF p = 0 THEN ex_pc' = "scan_date" /\ UNCHANGED <<ret, ret_site>>
           ELSE ExTry(strptime(Slice(name, p, DateRunLen)
                               \o Slice(name, p + DateRunLen + 1, TimeRunLen),
                               DATE_FORMATS[1]),
                      "scan_datetime", "scan_date")
    /\ UNCHANGED <<filename, name, fmt_i>>
    /\ ExFrame

ExScanDate ==
    /\ ex_pc = "scan_date"
    /\ LET p == SearchDate(name)
       IN  IF p = 0 THEN ex_pc' = "utcnow" /\ UNCHANGED <<ret, ret_site>>
           ELSE ExTry(strptime(Slice(name, p, DateRunLen), DATE_FORMATS[2]),
                      "scan_date", "utcnow")
    /\ UNCHANGED <<filename, name, fmt_i>>
    /\ ExFrame

\* return datetime.utcnow()
ExUtcNow ==
    /\ ex_pc = "utcnow"
    /\ ExReturn(clock, "utcnow")
    /\ UNCHANGED <<filename, name, fmt_i>>
    /\ ExFrame

---------------------------------------------------------------------------
(* create_stac_items *)

\* Python's None
None == [none |-> TRUE]

IsNone(x) == "none" \in DOMAIN x

\* pd.isna
isna(x) == x = NaT

\* The date of a record: the key may be absent; its value is a text, None
\* (a JSON null), NaN (an empty CSV cell) or a JSON object.
NoDate == [kind |-> "absent", text |-> <<>>]

DateText(t) == [kind |-> "text", text |-> t]

\* rec["date"] is truthy
Truthy(date) ==
    \/ date.kind \in {"nan", "mapping"}
    \/ date.kind = "text" /\ date.text # <<>>

ISO_DATE == <<"%Y", "-", "%m", "-", "%d">>

ISO_DATETIME == <<"%Y", "-", "%m", "-", "%d", "T", "%H", ":", "%M", ":", "%S">>

\* the UTC offset an ISO 8601 suffix spells, in minutes: "Z", "+HH:MM" or
\* "-HH:MM"; NaT for anything else
ParseOffset(t) ==
    IF t = <<"Z">> THEN UTC
    ELSE IF Len(t) = 6 /\ t[1] \in {"+", "-"} /\ AllDigits(t, 2, 2) /\ t[4] = ":"
            /\ AllDigits(t, 5, 2) /\ NumVal(t, 2, 2) <= 23 /\ NumVal(t, 5, 2) <= 59
         THEN [aware |-> TRUE,
               off |-> (IF t[1] = "-" THEN -1 ELSE 1) * (NumVal(t, 2, 2) * 60 + NumVal(t, 5, 2))]
         ELSE NaT

\* the Timestamp of an ISO 8601 text: a date, a date and time, or a date and
\* time with a UTC offset; NaT for a text that is none of these or whose year
\* a Timestamp cannot hold (its whole years are 1678 to 2261)
ParseTimestamp(t) ==
    LET stamp == IF Len(t) < 19 THEN strptime(t, ISO_DATE)
                 ELSE strptime(SubSeq(t, 1, 19), ISO_DATETIME)
        tz    == IF Len(t) <= 19 THEN Naive ELSE ParseOffset(SubSeq(t, 20, Len(t)))
    IN  IF IsDateTime(stamp) /\ tz # NaT /\ stamp.year >= 1678 /\ stamp.year <= 2261
        THEN [stamp EXCEPT !.tzinfo = tz]
        ELSE NaT

\* pd.to_datetime(rec["date"], errors="coerce"): a Timestamp, NaT where the
\* value cannot be coerced, and an exception for a mapping without year,
\* month and day
to_datetime(date) ==
    CASE date.kind = "text" -> ParseTimestamp(date.text)
      [] date.kind = "mapping" -> ValueError
      [] OTHER -> NaT

\* os.path.basename
basename(path) ==
    LET seps == {k \in 1..Len(path) : path[k] = "/"}
    IN  IF seps = {} THEN path
        ELSE SubSeq(path, (CHOOSE k \in seps : \A j \in seps : j <= k) + 1, Len(path))

\* path.lower() for the letters the extensions are spelt with
Lower(path) ==
    [k \in 1..Len(path) |->
        CASE path[k] = "T" -> "t" [] path[k] = "F" -> "f" [] path[k] = "I" -> "i"
          [] path[k] = "G" -> "g" [] path[k] = "B" -> "b" [] OTHER -> path[k]]

\* os.path.splitext(path)[1]: from the last "." of the base name on, unless
\* only dots lead up to it
splitext(path) ==
    LET base == basename(path)
        dots == {k \in 1..Len(base) : base[k] = "."}
        last == CHOOSE k \in dots : \A j \in dots : j <= k
    IN  IF dots = {} THEN <<>>
        ELSE IF \A k \in 1..last : base[k] = "." THEN <<>>
        ELSE SubSeq(base, last, Len(base))

infer_asset_type(path) ==
    LET ext == splitext(Lower(path))
    IN  IF ext = <<".", "f", "g", "b">> THEN "application/vnd.flatgeobuf"
        ELSE IF ext \in {<<".", "g", "e", "o", "j", "s", "o", "n">>, <<".", "j", "s", "o", "n">>}
             THEN "application/geo+json"
        ELSE IF ext \in {<<".", "t", "i", "f">>, <<".", "t", "i", "f", "f">>, <<".", "c", "o", "g">>}
             THEN "image/tiff"
        ELSE "application/octet-stream"

\* base_url.rstrip('/')
RECURSIVE rstrip_slash(_)
rstrip_slash(url) ==
    IF url # <<>> /\ url[Len(url)] = "/" THEN rstrip_slash(SubSeq(url, 1, Len(url) - 1))
    ELSE url

\* the day before and the day after a date
DayBefore(d) ==
    IF d.day > 1 THEN [d EXCEPT !.day = d.day - 1]
    ELSE IF d.month > 1
         THEN [d EXCEPT !.month = d.month - 1, !.day = DaysInMonth(d.year, d.month - 1)]
         ELSE [d EXCEPT !.year = d.year - 1, !.month = 12, !.day = 31]

DayAfter(d) ==
    IF d.day < DaysInMonth(d.year, d.month) THEN [d EXCEPT !.day = d.day + 1]
    ELSE IF d.month < 12 THEN [d EXCEPT !.month = d.month + 1, !.day = 1]
         ELSE [d EXCEPT !.year = d.year + 1, !.month = 1, !.day = 1]

\* dt.replace(tzinfo=tz): the same wall time, with tz attached
replace_tzinfo(d, tz) == [d EXCEPT !.tzinfo = tz]

\* dt.astimezone(timezone.utc) of an aware dt: the same instant, in UTC
astimezone_utc(d) ==
    LET mins  == d.hour * 60 + d.minute - d.tzinfo.off
        day   == IF mins < 0 THEN DayBefore(d) ELSE IF mins >= 1440 THEN DayAfter(d) ELSE d
        m     == (mins + 1440) % 1440
    IN  [day EXCEPT !.hour = m \div 60, !.minute = m % 60, !.tzinfo = UTC]

\* dt.strftime("%Y-%m-%dT%H%M%SZ")
strftime(d) ==
    Digits(d.year, 4) \o <<"-">> \o Digits(d.month, 2) \o <<"-">> \o Digits(d.day, 2)
    \o <<"T">> \o Digits(d.hour, 2) \o Digits(d.minute, 2) \o Digits(d.second, 2) \o <<"Z">>

WORLD == <<-180, -90, 180, 90>>

\* the function is entered
CsCall(records, call) ==
    /\ file_records' = records
    /\ cs_args' = call
    /\ rec_i' = 0
    /\ dt' = None
    /\ dt_source' = "none"
    /\ items' = <<>>
    /\ cs_pc' = "loop"

\* the record of the current iteration
Rec == file_records[rec_i]

\* for i, rec in enumerate(file_records): the next record, or the return
CsLoop ==
    /\ cs_pc = "loop"
    /\ IF rec_i < Len(file_records)
       THEN rec_i' = rec_i + 1 /\ cs_pc' = "date"
       ELSE rec_i' = rec_i /\ cs_pc' = "returned"
    /\ UNCHANGED <<file_records, cs_args, dt, dt_source, items, ex_vars>>
    /\ CsFrame

\* a slip: only None sends the record to the extractor, NaT does not
NeedsFilename_NoneOnly(d) == IsNone(d)

\* dt is None or pd.isna(dt)
NeedsFilename(d) == IsNone(d) \/ isna(d)

\* dt = None, and the explicit date when the record carries one; any exception
\* of the coercion is caught and leaves dt None.  Without a usable date the
\* extractor is called with the base name of the path.
CsDate ==
    /\ cs_pc = "date"
    /\ LET coerced == IF Truthy(Rec.date) THEN to_datetime(Rec.date) ELSE None
           d == IF IsDateTime(coerced) \/ coerced = NaT THEN coerced ELSE None
       IN  /\ dt' = d
           /\ IF NeedsFilename(d)
              THEN /\ cs_pc' = "extracting"
                   /\ dt_source' = "pending"
                   /\ ExCall(basename(Rec.path))
              ELSE /\ cs_pc' = "force_utc"
                   /\ dt_source' = "date"
                   /\ UNCHANGED ex_vars
    /\ UNCHANGED <<file_records, cs_args, rec_i, items>>
    /\ CsFrame

\* dt = extract_datetime_from_filename(file_name)
CsExtracted ==
    /\ cs_pc = "extracting"
    /\ ex_pc \in {"returned", "raised"}
    /\ IF ex_pc = "returned"
       THEN dt' = ret /\ dt_source' = "filename" /\ cs_pc' = "force_utc"
       ELSE cs_pc' = "raised" /\ UNCHANGED <<dt, dt_source>>
    /\ UNCHANGED <<file_records, cs_args, rec_i, items, ex_vars>>
    /\ CsFrame

\* "Force to UTC": replace and astimezone build a new value, which is dropped;
\* dt itself stays as it is.  NaT has no tzinfo either.
CsForceUtc ==
    /\ cs_pc = "force_utc"
    /\ LET dropped == IF ~IsDateTime(dt) \/ dt.tzinfo = Naive
                      THEN replace_tzinfo(dt, UTC)
                      ELSE astimezone_utc(dt)
       IN  dt' = dt
    /\ cs_pc' = "append"
    /\ UNCHANGED <<file_records, cs_args, rec_i, dt_source, items, ex_vars>>
    /\ CsFrame

\* the id, the geometry, the asset and the links, and items.append; strftime
\* of NaT raises
CsAppend ==
    /\ cs_pc = "append"
    /\ IF IsDateTime(dt)
       THEN LET file_name == basename(Rec.path)
                geom == IF cs_args.bbox # <<>> THEN cs_args.bbox ELSE WORLD
                asset_type == IF cs_args.asset_type # "" THEN cs_args.asset_type
                              ELSE infer_asset_type(Rec.path)
                assets == [asset_0 |-> [href |-> rstrip_slash(cs_args.base_url) \o <<"/">> \o file_name,
                                        type |-> asset_type,
                                        roles |-> <<"data">>]]
                links == IF cs_args.style_url # <<>>
                         THEN <<[rel |-> "style", href |-> cs_args.style_url,
                                 type |-> "application/json", asset_keys |-> <<"asset_0">>]>>
                         ELSE <<>>
            IN  /\ items' = Append(items, [id |-> strftime(dt), geometry |-> geom,
                                           bbox |-> geom, datetime |-> dt,
                                           assets |-> assets, links |-> links])
                /\ cs_pc' = "loop"
       ELSE items' = items /\ cs_pc' = "raised"
    /\ UNCHANGED <<file_records, cs_args, rec_i, dt, dt_source, ex_vars>>
    /\ CsFrame

---------------------------------------------------------------------------
(* validate_geoparquet *)

required_columns == <<"id", "datetime", "geometry", "bbox", "assets", "links">>

\* A cell of the table as pd.read_parquet hands it over: its Python type and,
\* for a container, what it holds.  A struct is read as a dict, a list as a
\* numpy array, a null as None, a string as a str.
Cell(type, holds) == [type |-> type, holds |-> holds]

NoneCell == Cell("NoneType", <<>>)

\* a slip: a column the table does not have reads as an empty list
row_get_EmptyDefault(row, col) == IF col \in DOMAIN row THEN row[col] ELSE Cell("list", <<>>)

\* row.get(col): the cell, None for a column the table does not have
row_get(row, col) == IF col \in DOMAIN row THEN row[col] ELSE NoneCell

\* isinstance(x, dict)
IsDict(x) == x.type = "dict"

\* isinstance(x, collections.abc.Mapping)
IsMapping(x) == x.type \in {"dict", "Mapping"}

\* isinstance(x, list)
IsList(x) == x.type = "list"

\* a slip: only a list counts, not the array a Parquet list is read as
IsIterable_ListOnly(x) == x.type = "list"

\* isinstance(x, collections.abc.Iterable)
IsIterable(x) == x.type \in {"list", "ndarray", "dict", "Mapping", "str"}

Line(kind, subject) == [kind |-> kind, subject |-> subject]

\* the function is entered: gdf = pd.read_parquet(path), valid = True
VCall(table) ==
    /\ gdf' = table
    /\ valid' = TRUE
    /\ col_i' = 1
    /\ row_i' = 0
    /\ v_pc' = "columns"

\* one iteration of the loop over required_columns
VCheckColumn ==
    /\ v_pc = "columns"
    /\ col_i <= Len(required_columns)
    /\ IF required_columns[col_i] \notin gdf.columns
       THEN /\ out' = Append(out, Line("Missing required column", required_columns[col_i]))
            /\ valid' = FALSE
       ELSE UNCHANGED <<out, valid>>
    /\ col_i' = col_i + 1
    /\ UNCHANGED <<v_pc, gdf, row_i>>
    /\ VFrame

VColumnsDone ==
    /\ v_pc = "columns"
    /\ col_i > Len(required_columns)
    /\ v_pc' = "rows"
    /\ row_i' = 1
    /\ UNCHANGED <<gdf, col_i, valid, out>>
    /\ VFrame

\* The lines one row prints.  assets: a dict passes, any other Mapping is
\* coerced, anything else is reported.  links: a list passes, any other
\* iterable is made a list (which none of the cell types refuses), anything
\* else is reported.  What the containers hold is not looked at.
RowLines(row, idx) ==
    LET assets == row_get(row, "assets")
        links  == row_get(row, "links")
    IN  (IF ~IsDict(assets) /\ ~IsMapping(assets)
         THEN <<Line("'assets' is not a dict", idx)>> ELSE <<>>)
        \o (IF ~IsList(links) /\ ~IsIterable(links)
            THEN <<Line("'links' is not a list", idx)>> ELSE <<>>)

\* one iteration of the loop over gdf.iterrows()
VCheckRow ==
    /\ v_pc = "rows"
    /\ row_i <= Len(gdf.rows)
    /\ out' = out \o RowLines(gdf.rows[row_i], row_i - 1)
    /\ valid' = (valid /\ RowLines(gdf.rows[row_i], row_i - 1) = <<>>)
    /\ row_i' = row_i + 1
    /\ UNCHANGED <<v_pc, gdf, col_i>>
    /\ VFrame

\* the closing line, and return valid
VReport ==
    /\ v_pc = "rows"
    /\ row_i > Len(gdf.rows)
    /\ out' = Append(out, Line(IF valid THEN "passed validation" ELSE "has validation errors", "file"))
    /\ v_pc' = "returned"
    /\ UNCHANGED <<gdf, col_i, row_i, valid>>
    /\ VFrame

---------------------------------------------------------------------------
(* load_file_list and main *)

\* load_file_list: the records and the file read, or the error raised.  The
\* CSV wins over the JSON file, which wins over the positional files.
load_file_list(a, files_on_disk) ==
    IF a.csv THEN [records |-> files_on_disk.csv, io |-> <<"read_csv">>]
    ELSE IF a.json THEN [records |-> files_on_disk.json, io |-> <<"open json">>]
    ELSE IF a.files # <<>>
         THEN [records |-> [k \in 1..Len(a.files) |-> [path |-> a.files[k], date |-> NoDate]],
               io |-> <<>>]
    ELSE [records |-> <<>>, io |-> <<"ValueError: No input provided">>]

\* if args.validate: validate_geoparquet(args.validate); else: the generation
MainStart ==
    /\ m_pc = "start"
    /\ IF args.validate # <<>>
       THEN /\ io' = Append(io, "read_parquet")
            /\ VCall(fs.parquet)
            /\ m_pc' = "validating"
            /\ UNCHANGED out
       ELSE /\ m_pc' = "generate"
            /\ UNCHANGED <<io, v_vars>>
    /\ UNCHANGED <<args, fs, cs_vars, ex_vars>>
    /\ UNCHANGED clock

MainValidated ==
    /\ m_pc = "validating"
    /\ v_pc = "returned"
    /\ m_pc' = "done"
    /\ UNCHANGED <<args, fs, io, v_vars, cs_vars, ex_vars>>
    /\ UNCHANGED clock

\* a slip: the input is loaded without a look at the base URL
MainGenerate_NoCheck ==
    /\ m_pc = "generate"
    /\ m_pc' = "load"
    /\ UNCHANGED <<io, args, fs, v_vars, cs_vars, ex_vars>>
    /\ UNCHANGED clock

\* if not args.base_url: raise ValueError(...)
MainGenerate ==
    /\ m_pc = "generate"
    /\ IF args.base_url = <<>>
       THEN /\ io' = Append(io, "ValueError: --base-url is required")
            /\ m_pc' = "raised"
       ELSE /\ m_pc' = "load"
            /\ UNCHANGED io
    /\ UNCHANGED <<args, fs, v_vars, cs_vars, ex_vars>>
    /\ UNCHANGED clock

\* file_records = load_file_list(args), and the call of create_stac_items
MainLoad ==
    /\ m_pc = "load"
    /\ LET loaded == load_file_list(args, fs)
       IN  /\ io' = io \o loaded.io
           /\ IF args.csv \/ args.json \/ args.files # <<>>
              THEN /\ m_pc' = "creating"
                   /\ CsCall(loaded.records,
                             [base_url |-> args.base_url, style_url |-> args.style_url,
                              bbox |-> args.bbox, asset_type |-> args.asset_type])
              ELSE /\ m_pc' = "raised"
                   /\ UNCHANGED cs_vars
    /\ UNCHANGED <<args, fs, v_vars, ex_vars>>
    /\ UNCHANGED clock

\* gdf.to_parquet(args.output) and the closing line; an exception of
\* create_stac_items leaves main
MainWrite ==
    /\ m_pc = "creating"
    /\ cs_pc \in {"returned", "raised"}
    /\ IF cs_pc = "returned"
       THEN /\ io' = Append(io, "to_parquet")
            /\ out' = Append(out, Line("GeoParquet written", "file"))
            /\ m_pc' = "done"
       ELSE /\ m_pc' = "raised"
            /\ UNCHANGED <<io, out>>
    /\ UNCHANGED <<args, fs, v_pc, gdf, col_i, row_i, valid, cs_vars, ex_vars>>
    /\ UNCHANGED clock

---------------------------------------------------------------------------
(* The parts of the model that are at rest while another part is checked *)

ExIdle ==
    /\ ex_pc = "idle" /\ filename = <<>> /\ name = <<>> /\ fmt_i = 0
    /\ ret = NaT /\ ret_site = "none"

NoArgs == [base_url |-> <<>>, style_url |-> <<>>, bbox |-> <<>>, asset_type |-> ""]

NoCommandLine == [validate |-> <<>>, base_url |-> <<>>, style_url |-> <<>>, csv |-> FALSE,
                  json |-> FALSE, files |-> <<>>, bbox |-> <<>>, asset_type |-> ""]

CsIdle ==
    /\ cs_pc = "idle" /\ file_records = <<>> /\ cs_args = NoArgs /\ rec_i = 0
    /\ dt = None /\ dt_source = "none" /\ items = <<>>

VIdle ==
    /\ v_pc = "idle" /\ gdf = [columns |-> {}, rows |-> <<>>]
    /\ col_i = 0 /\ row_i = 0 /\ valid = TRUE /\ out = <<>>

NoFiles == [parquet |-> [columns |-> {}, rows |-> <<>>], csv |-> <<>>, json |-> <<>>]

MIdle == m_pc = "idle" /\ args = NoCommandLine /\ io = <<>> /\ fs = NoFiles

---------------------------------------------------------------------------
(* The filenames the extractor is checked on *)

\* the longest filename, in parts
MaxParts == 3

DateYears == {2024, 2025}

Ymd(y, m, d) == Digits(y, 4) \o Digits(m, 2) \o Digits(d, 2)

Y_m_d(y, m, d) == Digits(y, 4) \o <<"-">> \o Digits(m, 2) \o <<"-">> \o Digits(d, 2)

\* every YYYYMMDD of the years DateYears
CalendarNames ==
    {Ymd(t[1], t[2], t[3]) :
        t \in {u \in DateYears \X (1..12) \X (1..31) : u[3] <= DaysInMonth(u[1], u[2])}}

NameParts == {
    Ymd(2025, 1, 6), Ymd(2025, 12, 31), Ymd(2025, 13, 1),
    Y_m_d(2025, 1, 6),
    Digits(1230, 4),
    <<"T">> \o Digits(1230, 4),
    <<"T">> \o Digits(12, 2) \o <<":">> \o Digits(30, 2),
    <<"T">> \o Digits(12, 2) \o <<":">> \o Digits(30, 2) \o <<":">> \o Digits(45, 2),
    <<"_">>, <<"-">>, <<"x">>, <<"9">>, <<".">> }

\* every concatenation of at most max parts
PartNames(max) ==
    {Flatten(ps) : ps \in UNION {[1..n -> NameParts] : n \in 0..max}}

\* the names of at most max parts, and every calendar date with and without
\* an extension
FileNames(max) ==
    PartNames(max) \cup CalendarNames \cup {c \o <<".", "x">> : c \in CalendarNames}

\* the instants the clock may show
Instants == {DateTime(2026, 11, 5, 23, 38, 11, Naive), DateTime(2025, 1, 6, 0, 0, 0, Naive)}

InitExtract ==
    /\ clock \in Instants
    /\ filename \in FileNames(MaxParts)
    /\ ex_pc = "strip" /\ name = <<>> /\ fmt_i = 0 /\ ret = NaT /\ ret_site = "none"
    /\ CsIdle /\ VIdle /\ MIdle

NextExtract ==
    \/ ExStrip
    \/ ExTryFormat
    \/ ExFormatsDone
    \/ ExScanDateTime
    \/ ExScanDate
    \/ ExUtcNow

SpecExtract == InitExtract /\ [][NextExtract]_vars

---------------------------------------------------------------------------
(* The records create_stac_items is checked on *)

\* the longest list of records
MaxRecords == 2

HMS(h, m, sec) == <<"T">> \o Digits(h, 2) \o <<":">> \o Digits(m, 2) \o <<":">> \o Digits(sec, 2)

Offset(sign, h, m) == <<sign>> \o Digits(h, 2) \o <<":">> \o Digits(m, 2)

TIF == <<".", "t", "i", "f">>

\* obs_20190702_1700.tif in a directory, 20251231.tif, r.fgb, obs_20190703.tif
Paths == {
    <<"d", "/", "o", "b", "s", "_">> \o Ymd(2019, 7, 2) \o <<"_">> \o Digits(1700, 4) \o TIF,
    Ymd(2025, 12, 31) \o TIF,
    <<"r", ".", "f", "g", "b">>,
    <<"o", "b", "s", "_">> \o Ymd(2019, 7, 3) \o TIF }

DateTexts == {
    <<>>,
    <<"n", "/", "a">>,
    Y_m_d(2024, 13, 1),
    Y_m_d(2024, 5, 1),
    Y_m_d(2024, 5, 1) \o HMS(12, 0, 0),
    Y_m_d(2024, 5, 1) \o HMS(12, 0, 0) \o <<"Z">>,
    Y_m_d(2024, 5, 1) \o HMS(12, 0, 0) \o Offset("+", 2, 0),
    Y_m_d(2024, 12, 31) \o HMS(23, 30, 0) \o Offset("-", 5, 0) }

Dates ==
    {DateText(t) : t \in DateTexts}
    \cup {[kind |-> k, text |-> <<>>] : k \in {"none", "nan", "mapping"}}

Records ==
    {[path |-> p, date |-> NoDate] : p \in Paths}
    \cup {[path |-> Ymd(2025, 12, 31) \o TIF, date |-> d] : d \in Dates}

\* every list of at most max records
RecordLists(max) == UNION {[1..n -> Records] : n \in 0..max}

BaseUrl == <<"u", "/", "d", "/">>

StyleUrl == <<"u", "/", "s">>

Calls == {[base_url |-> BaseUrl, style_url |-> st, bbox |-> <<>>, asset_type |-> ""] :
            st \in {<<>>, StyleUrl}}

InitBuild ==
    /\ clock = DateTime(2026, 11, 5, 23, 38, 11, Naive)
    /\ file_records \in RecordLists(MaxRecords)
    /\ cs_args \in Calls
    /\ cs_pc = "loop" /\ rec_i = 0 /\ dt = None /\ dt_source = "none" /\ items = <<>>
    /\ ExIdle /\ VIdle /\ MIdle

NextBuild ==
    \/ CsLoop
    \/ CsDate
    \/ CsExtracted
    \/ CsForceUtc
    \/ CsAppend
    \/ NextExtract

SpecBuild == InitBuild /\ [][NextBuild]_vars

---------------------------------------------------------------------------
(* The tables validate_geoparquet is checked on *)

\* the most rows of a table
MaxRows == 2

Dict(keys) == Cell("dict", keys)

\* the assets cells: one asset with href, type and roles; one without type;
\* one that is a string and no mapping; a null
AssetsCells == {
    Cell("dict", <<Dict({"href", "type", "roles"})>>),
    Cell("dict", <<Dict({"href", "roles"})>>),
    Cell("dict", <<Cell("str", <<>>)>>),
    NoneCell }

\* the links cells: no link; a style link; a link without href; a string
\* that is no mapping; a null
LinksCells == {
    Cell("ndarray", <<>>),
    Cell("ndarray", <<Dict({"rel", "href", "type", "asset:keys"})>>),
    Cell("ndarray", <<Dict({"rel", "type"})>>),
    Cell("ndarray", <<Cell("str", <<>>)>>),
    NoneCell }

\* the columns a table may lack
Droppable == {"id", "assets", "links"}

ColumnSets == {{required_columns[k] : k \in 1..Len(required_columns)} \ d : d \in SUBSET Droppable}

PlainCell == Cell("str", <<>>)

\* the rows of a table with the columns cols
RowsOf(cols) ==
    {[c \in cols |-> CASE c = "assets" -> a [] c = "links" -> l [] OTHER -> PlainCell] :
        a \in AssetsCells, l \in LinksCells}

\* every table of at most max rows
Tables(max) ==
    UNION {{[columns |-> cols, rows |-> rs] : rs \in UNION {[1..n -> RowsOf(cols)] : n \in 0..max}} :
              cols \in ColumnSets}

InitValidate ==
    /\ clock = DateTime(2026, 11, 5, 23, 38, 11, Naive)
    /\ gdf \in Tables(MaxRows)
    /\ v_pc = "columns" /\ col_i = 1 /\ row_i = 0 /\ valid = TRUE /\ out = <<>>
    /\ ExIdle /\ CsIdle /\ MIdle

NextValidate ==
    \/ VCheckColumn
    \/ VColumnsDone
    \/ VCheckRow
    \/ VReport

SpecValidate == InitValidate /\ [][NextValidate]_vars

---------------------------------------------------------------------------
(* The command lines main is checked on *)

GoodRow == [c \in {required_columns[k] : k \in 1..Len(required_columns)} |->
              CASE c = "assets" -> Cell("dict", <<Dict({"href", "type", "roles"})>>)
                [] c = "links" -> Cell("ndarray", <<>>)
                [] OTHER -> PlainCell]

FilesOnDisk == {
    [parquet |-> [columns |-> DOMAIN GoodRow, rows |-> <<GoodRow>>],
     csv |-> <<[path |-> Ymd(2025, 12, 31) \o TIF, date |-> DateText(Y_m_d(2024, 5, 1))],
               [path |-> <<"r", ".", "f", "g", "b">>, date |-> [kind |-> "nan", text |-> <<>>]]>>,
     json |-> <<[path |-> <<"o", "b", "s", "_">> \o Ymd(2019, 7, 3) \o TIF, date |-> NoDate]>>],
    [parquet |-> [columns |-> DOMAIN GoodRow \ {"links"}, rows |-> <<>>],
     csv |-> <<>>,
     json |-> <<[path |-> Ymd(2025, 12, 31) \o TIF,
                 date |-> DateText(Y_m_d(2024, 5, 1) \o HMS(12, 0, 0) \o Offset("+", 2, 0))]>>] }

CommandLines ==
    [validate : {<<>>, <<"i", ".", "p">>},
     base_url : {<<>>, BaseUrl},
     style_url : {<<>>, StyleUrl},
     csv : BOOLEAN,
     json : BOOLEAN,
     files : {<<>>, <<<<"d", "/", "o", "b", "s", "_">> \o Ymd(2019, 7, 2) \o <<"_">> \o Digits(1700, 4) \o TIF,
                      Ymd(2025, 1, 6) \o TIF>>},
     bbox : {<<>>},
     asset_type : {""}]

InitMain ==
    /\ clock = DateTime(2026, 11, 5, 23, 38, 11, Naive)
    /\ args \in CommandLines
    /\ fs \in FilesOnDisk
    /\ m_pc = "start" /\ io = <<>>
    /\ ExIdle /\ CsIdle
    /\ v_pc = "idle" /\ gdf = NoFiles.parquet /\ col_i = 0 /\ row_i = 0 /\ valid = TRUE /\ out = <<>>

NextMain ==
    \/ MainStart
    \/ MainValidated
    \/ MainGenerate
    \/ MainLoad
    \/ MainWrite
    \/ NextValidate
    \/ NextBuild

SpecMain == InitMain /\ [][NextMain]_vars

---------------------------------------------------------------------------
(* Claims about extract_datetime_from_filename *)

Midnight(y, m, d) == DateTime(y, m, d, 0, 0, 0, Naive)

\* the 8 characters of s from p on are digits that spell a date of the calendar
ValidDateAt(s, p) ==
    /\ AllDigits(s, p, 8)
    /\ ValidDateTime(NumVal(s, p, 4), NumVal(s, p + 4, 2), NumVal(s, p + 6, 2), 0, 0, 0)

MidnightAt(s, p) == Midnight(NumVal(s, p, 4), NumVal(s, p + 4, 2), NumVal(s, p + 6, 2))

\* s is exactly YYYYMMDD, a date of the calendar
IsExactDate(s) == Len(s) = 8 /\ ValidDateAt(s, 1)

\* the strict formats that parse the whole of s
ParsingFormats(s) == {k \in 1..Len(DATE_FORMATS) : IsDateTime(strptime(s, DATE_FORMATS[k]))}

\* the earliest strict format that parses the whole of s, 0 when none does
FirstParsingFormat(s) ==
    LET pf == ParsingFormats(s)
    IN  IF pf = {} THEN 0 ELSE CHOOSE k \in pf : \A j \in pf : k <= j

Started == ex_pc \notin {"idle", "strip"}

Returned == ex_pc = "returned"

\* C4: for a filename whose extension-stripped name is exactly a valid
\* YYYYMMDD, the function returns midnight of that year, month and day, and
\* not the current time.
C4_ExactDateGivesMidnight ==
    (Returned /\ IsExactDate(StripExtension(filename)))
        => /\ ret = MidnightAt(StripExtension(filename), 1)
           /\ ret_site # "utcnow"

\* C5: whenever some strict format parses the whole extension-stripped name,
\* the function returns the parse by the earliest such format of DATE_FORMATS,
\* and never enters the embedded-pattern scans or the current-time fallback.
C5_FirstFormatWins ==
    Started =>
        LET first == FirstParsingFormat(StripExtension(filename))
        IN  first # 0 =>
                /\ ex_pc \in {"formats", "returned"}
                /\ fmt_i <= first
                /\ Returned => /\ ret_site = "strptime"
                               /\ fmt_i = first
                               /\ ret = strptime(StripExtension(filename), DATE_FORMATS[first])

\* a name two strict formats parse has been returned from
C5_Witness ==
    /\ Returned
    /\ Cardinality(ParsingFormats(StripExtension(filename))) >= 2
    /\ fmt_i = 1

\* the scan for 8 digits, "_" or "-", 4 digits yields a valid timestamp for s
DateTimeScanYields(s) ==
    /\ SearchDateTime(s) # 0
    /\ IsDateTime(strptime(Slice(s, SearchDateTime(s), 8) \o Slice(s, SearchDateTime(s) + 9, 4),
                           DATE_FORMATS[1]))

\* the scan for 8 digits yields a valid date for s
DateScanYields(s) ==
    /\ SearchDate(s) # 0
    /\ IsDateTime(strptime(Slice(s, SearchDate(s), 8), DATE_FORMATS[2]))

\* no stage of the cascade yields a valid date for s
NoStageYields(s) ==
    /\ ParsingFormats(s) = {}
    /\ ~DateTimeScanYields(s)
    /\ ~DateScanYields(s)

\* C6: the function is total: for every filename it never raises, it is
\* always at a return or at a position that has a next step, what it returns
\* is a timestamp, and when no stage yields a valid date the timestamp is the
\* current UTC instant.
C6_Total ==
    /\ ex_pc # "raised"
    /\ ~Returned => /\ ex_pc \in {"strip", "formats", "scan_datetime", "scan_date", "utcnow"}
                    /\ ex_pc = "formats" => fmt_i \in 1..(Len(DATE_FORMATS) + 1)
    /\ Returned => IsDateTime(ret)
    /\ (Returned /\ NoStageYields(StripExtension(filename)))
           => ret_site = "utcnow" /\ ret = clock

\* the function has returned the current time for a name that holds 8 digits
\* in a row which do not spell a date
C6_Witness ==
    /\ Returned
    /\ ret_site = "utcnow"
    /\ SearchDate(name) # 0
    /\ ret = clock

\* a run of exactly 8 digits of s, starting at p, that spells a date
StandaloneDateAt(s, p) ==
    /\ ValidDateAt(s, p)
    /\ ~IsDigit(s, p - 1)
    /\ ~IsDigit(s, p + 8)

\* C10: when no strict format parses the whole name and the delimited
\* date+time scan yields no valid timestamp, the function returns midnight of
\* a standalone run of exactly 8 digits of the name that spells a valid date,
\* whenever the name holds one; an invalid candidate is passed over.
C10_StandaloneDateFound ==
    LET s == StripExtension(filename)
    IN  (/\ Returned
         /\ ParsingFormats(s) = {}
         /\ ~DateTimeScanYields(s)
         /\ \E p \in 1..Len(s) : StandaloneDateAt(s, p))
            => /\ ret_site = "scan_date"
               /\ \E p \in 1..Len(s) : StandaloneDateAt(s, p) /\ ret = MidnightAt(s, p)

---------------------------------------------------------------------------
(* Claims about create_stac_items *)

\* C2: the datetime stored in every produced item is normalized to UTC (UTC
\* attached to a naive timestamp, a zoned one converted), and the id with its
\* "Z" is that UTC value formatted.
C2_StoredDatetimeIsUtc ==
    \A k \in 1..Len(items) :
        /\ items[k].datetime.tzinfo = UTC
        /\ items[k].id = strftime(items[k].datetime)

\* the record carries an explicit date that can be coerced to a timestamp
HasParseableDate(rec) ==
    rec.date.kind = "text" /\ rec.date.text # <<>> /\ IsDateTime(ParseTimestamp(rec.date.text))

\* what the cascade of the extractor yields for the filename f
CascadeResult(f) ==
    LET s == StripExtension(f)
        first == FirstParsingFormat(s)
    IN  IF first # 0 THEN strptime(s, DATE_FORMATS[first])
        ELSE IF DateTimeScanYields(s)
        THEN strptime(Slice(s, SearchDateTime(s), 8) \o Slice(s, SearchDateTime(s) + 9, 4),
                      DATE_FORMATS[1])
        ELSE IF DateScanYields(s) THEN strptime(Slice(s, SearchDate(s), 8), DATE_FORMATS[2])
        ELSE clock

\* C9: a record with a parseable explicit date gets that date as its datetime
\* and the filename is not consulted; a record whose date is absent, empty or
\* fails coercion gets what extract_datetime_from_filename returns for the
\* base filename; and the batch is never aborted: every record so far, and in
\* the end every record, has produced one item.
C9_DateThenFilename ==
    /\ cs_pc # "raised"
    /\ Len(items) = IF cs_pc \in {"idle", "loop", "returned"} THEN rec_i ELSE rec_i - 1
    /\ cs_pc = "returned" => Len(items) = Len(file_records)
    /\ \A k \in 1..Len(items) :
          items[k].datetime = IF HasParseableDate(file_records[k])
                              THEN ParseTimestamp(file_records[k].date.text)
                              ELSE CascadeResult(basename(file_records[k].path))
    /\ (cs_pc = "loop" /\ rec_i >= 1) =>
          IF HasParseableDate(Rec)
          THEN dt_source = "date"
          ELSE /\ dt_source = "filename"
               /\ filename = basename(Rec.path)
               /\ items[rec_i].datetime = ret

\* a batch is through whose first record has a date that fails coercion and
\* whose second record has a parseable one
C9_Witness ==
    /\ cs_pc = "returned"
    /\ Len(items) = 2
    /\ file_records[1].date.kind = "text"
    /\ file_records[1].date.text # <<>>
    /\ ~HasParseableDate(file_records[1])
    /\ HasParseableDate(file_records[2])
    /\ items[2].datetime.tzinfo.off # 0

---------------------------------------------------------------------------
(* Claims about validate_geoparquet *)

SixColumns == {"id", "datetime", "geometry", "bbox", "assets", "links"}

\* x is a mapping that has every key of keys
HasKeys(x, keys) == x.type \in {"dict", "Mapping"} /\ keys \subseteq x.holds

IsMappingCell(x) == x.type \in {"dict", "Mapping"}

IsSequenceCell(x) == x.type \in {"list", "ndarray"}

\* assets is a mapping whose entries are mappings with href and type
AssetsOk(x) ==
    IsMappingCell(x) /\ \A k \in 1..Len(x.holds) : HasKeys(x.holds[k], {"href", "type"})

\* links is a sequence whose elements are mappings with rel and href
LinksOk(x) ==
    IsSequenceCell(x) /\ \A k \in 1..Len(x.holds) : HasKeys(x.holds[k], {"rel", "href"})

Rows == {gdf.rows[k] : k \in 1..Len(gdf.rows)}

\* the violations printed so far: every line but the closing ones
Violations ==
    {k \in 1..Len(out) : out[k].kind \in {"Missing required column", "'assets' is not a dict",
                                          "'links' is not a list"}}

MissingLinksLines ==
    {k \in Violations : out[k] = Line("Missing required column", "links")}

LinksNotListLines == {k \in Violations : out[k].kind = "'links' is not a list"}

VReturned == v_pc = "returned"

\* C1: a table with all required columns whose assets are mappings and whose
\* links are sequences, but where some assets entry lacks href or type or is
\* no mapping, or some links element lacks rel or href or is no mapping, is
\* reported: validate returns false and prints a violation.
C1_BadEntriesRejected ==
    (/\ VReturned
     /\ gdf.columns = SixColumns
     /\ \A r \in Rows : IsMappingCell(r["assets"]) /\ IsSequenceCell(r["links"])
     /\ \E r \in Rows : ~AssetsOk(r["assets"]) \/ ~LinksOk(r["links"]))
        => valid = FALSE /\ Violations # {}

\* the table lacks links and nothing else, and its assets are well-formed
LacksOnlyLinks ==
    /\ gdf.columns = SixColumns \ {"links"}
    /\ \A r \in Rows : AssetsOk(r["assets"])

\* C3 as stated: on a table that lacks the links column, validate returns
\* false, checks every row and prints exactly one line about links, the
\* missing-column one.
C3_OneLineAboutLinks ==
    (VReturned /\ LacksOnlyLinks)
        => /\ valid = FALSE
           /\ row_i = Len(gdf.rows) + 1
           /\ Cardinality(MissingLinksLines) = 1
           /\ LinksNotListLines = {}

\* C3 as amended: on a table that lacks the links column, validate returns
\* false, checks every row, prints exactly one missing-column line for links
\* and, for each row, one line that its links is not a list, and prints no
\* other violation.
C3_OneLinePerRowToo ==
    (VReturned /\ LacksOnlyLinks)
        => /\ valid = FALSE
           /\ row_i = Len(gdf.rows) + 1
           /\ Cardinality(MissingLinksLines) = 1
           /\ Cardinality(LinksNotListLines) = Len(gdf.rows)
           /\ \A k \in 1..Len(gdf.rows) : \E j \in LinksNotListLines : out[j].subject = k - 1
           /\ Violations = MissingLinksLines \cup LinksNotListLines

\* validate has returned from a table without links that has rows
C3_Witness == VReturned /\ LacksOnlyLinks /\ Len(gdf.rows) >= 2

WellFormed ==
    /\ gdf.columns = SixColumns
    /\ \A r \in Rows : AssetsOk(r["assets"]) /\ LinksOk(r["links"])

\* C7: on a well-formed table, with any number of rows, validate prints no
\* violation at any point and returns true.
C7_WellFormedPasses ==
    (v_pc # "idle" /\ WellFormed)
        => /\ valid = TRUE
           /\ Violations = {}
           /\ VReturned => out = <<Line("passed validation", "file")>>

\* validate has returned from a well-formed table with rows, one with a link
C7_Witness ==
    /\ VReturned
    /\ WellFormed
    /\ Len(gdf.rows) >= 2
    /\ \E r \in Rows : r["links"].holds # <<>>

---------------------------------------------------------------------------
(* Claims about main *)

\* C8: in a run that is not in validate mode and has no base URL, the error
\* is raised before any input is read, any item built or any file written:
\* the error is the only event of the run.
C8_ErrorBeforeAnyWork ==
    (args.validate = <<>> /\ args.base_url = <<>>)
        => /\ m_pc \in {"start", "generate", "raised"}
           /\ m_pc # "raised" => io = <<>>
           /\ m_pc = "raised" => io = <<"ValueError: --base-url is required">>
           /\ cs_pc = "idle" /\ items = <<>> /\ file_records = <<>>
           /\ v_pc = "idle"
           /\ out = <<>>

\* the error has been raised in a run that names a CSV file to read
C8_Witness ==
    /\ m_pc = "raised"
    /\ args.validate = <<>>
    /\ args.base_url = <<>>
    /\ args.csv
    /\ fs.csv # <<>>

===========================================================================
